---- MODULE Spec2Model ----
(***************************************************************************)
(* Model of biocypher/_get.py: Resource descriptors and the Downloader     *)
(* (cache manager) with its JSON cache file.                               *)
(*                                                                         *)
(* Python strings are sequences of one-character strings, so that slicing, *)
(* rfind, startswith, endswith and the iteration of a string by a list     *)
(* comprehension are computed as Python computes them.  Python values of   *)
(* varying type (str / list / None) are tagged records, see Str, Lst, None.*)
(* Time is counted in ticks, TicksPerDay ticks to the day.                 *)
(***************************************************************************)
EXTENDS Integers, Sequences, FiniteSets, TLC

\* ------------------------------------------------------------------ bounds
TicksPerDay == 2
MaxClock == 3
MaxListing == 2
MaxSegs == 3
MaxFail == 2
MaxCalls == 2

\* ------------------------------------------------------- Python values
Str(s) == [k |-> "str", s |-> s, l |-> <<>>]
Lst(l) == [k |-> "list", s |-> <<>>, l |-> l]
None == [k |-> "none", s |-> <<>>, l |-> <<>>]

\* str.startswith(prefix)
StartsWith(s, p) == Len(s) >= Len(p) /\ SubSeq(s, 1, Len(p)) = p

\* str.endswith(suffix)
EndsWith(s, p) == Len(s) >= Len(p) /\ SubSeq(s, Len(s) - Len(p) + 1, Len(s)) = p

\* str.find(c) for a one-character c: 0-based index of the first occurrence, -1 if none
Find(s, c) ==
    IF \E i \in 1..Len(s) : s[i] = c
    THEN (CHOOSE i \in 1..Len(s) : s[i] = c /\ \A j \in 1..(i - 1) : s[j] # c) - 1
    ELSE -1

\* str.rfind(c) for a one-character c: 0-based index of the last occurrence, -1 if none
RFind(s, c) ==
    IF \E i \in 1..Len(s) : s[i] = c
    THEN (CHOOSE i \in 1..Len(s) : s[i] = c /\ \A j \in (i + 1)..Len(s) : s[j] # c) - 1
    ELSE -1

\* s[a:] for a >= 0
SliceFrom(s, a) == SubSeq(s, a + 1, Len(s))

\* s[:b], b may be negative (counted from the end), as url[: url.find("/")]
SliceTo(s, b) ==
    IF b >= 0 THEN SubSeq(s, 1, IF b < Len(s) THEN b ELSE Len(s))
    ELSE SubSeq(s, 1, IF Len(s) + b > 0 THEN Len(s) + b ELSE 0)

\* ------------------------------------------------------- string literals
SLASH == <<"/">>
USCORE == <<"_">>
FTP == <<"f", "t", "p", ":", "/", "/">>
ZIP == <<".", "z", "i", "p">>
TARGZ == <<".", "t", "a", "r", ".", "g", "z">>
GZ == <<".", "g", "z">>
DECOMP == <<".", "d", "e", "c", "o", "m", "p">>
UNZIP == <<".", "u", "n", "z", "i", "p">>
UNTAR == <<".", "u", "n", "t", "a", "r">>
MEMBER == <<"/", "m">>

\* the cache directory the managers are constructed over
CacheDir == <<"c">>

\* --------------------------------------------------- Resource descriptors
\* Resource.__init__: the four fields, no validation
Resource(name, url_s, lifetime, is_dir) ==
    [name |-> name, url_s |-> url_s, lifetime |-> lifetime, is_dir |-> is_dir]

\* the descriptor objects the callers hold: a single-URL resource fetched
\* verbatim, a single-URL resource of lifetime 0 (the default) and a list resource
Resources ==
    <<  Resource(<<"r">>, Str(<<"h", "/", "a">>), 1, FALSE),
        Resource(<<"t">>, Str(<<"h", "/", "b">> \o GZ), 0, FALSE),
        Resource(<<"s">>, Lst(<<Str(<<"h", "/", "x">>),
                                Str(<<"h", "/", "y">> \o GZ)>>), 1, FALSE) >>

\* the descriptor objects of the callers of directory resources: a directory
\* on the ftp server, a directory with another scheme, a single-URL resource
DirResources ==
    <<  Resource(<<"d">>, Str(FTP \o <<"h", "/", "d">>), 1, TRUE),
        Resource(<<"e">>, Str(<<"h", "/", "d">>), 0, TRUE),
        Resource(<<"r">>, Str(<<"h", "/", "a">>), 1, FALSE) >>

\* the descriptor objects of the callers of two managers: two single-URL
\* resources
TwoResources ==
    <<  Resource(<<"r">>, Str(<<"h", "/", "a">>), 1, FALSE),
        Resource(<<"t">>, Str(<<"h", "/", "b">> \o GZ), 0, FALSE) >>

\* two descriptor objects with one name: they differ in url_s and lifetime
LifeResources ==
    <<  Resource(<<"r">>, Str(<<"h", "/", "a">>), 1, FALSE),
        Resource(<<"r">>, Str(<<"h", "/", "b">> \o GZ), 0, FALSE) >>

\* the remote ftp server: its host, its directory and the names it may list
FtpHost == <<"h">>
FtpDir == <<"d">>
FtpNames == { <<"f">>, <<"g">> \o GZ }

RECURSIVE SeqsUpTo(_, _)
SeqsUpTo(S, n) ==
    IF n = 0 THEN { <<>> }
    ELSE SeqsUpTo(S, n - 1) \cup
         { Append(q, x) : q \in { p \in SeqsUpTo(S, n - 1) : Len(p) = n - 1 }, x \in S }

\* nlst() lists each name once
Listings == { q \in SeqsUpTo(FtpNames, MaxListing) :
                \A i, j \in 1..Len(q) : i # j => q[i] # q[j] }
\* download(*resources) is called with one resource or with two
Batches(rs) == { <<a>> : a \in DOMAIN rs } \cup { <<a, b>> : a, b \in DOMAIN rs }

\* the retrievals a download of r makes at most, given what the server lists
UrlCount(r, listing) ==
    IF r.is_dir THEN (IF StartsWith(r.url_s.s, FTP) THEN Len(listing) ELSE 0)
    ELSE IF r.url_s.k = "list" THEN Len(r.url_s.l) ELSE 1

RECURSIVE Attempts(_, _, _, _)
Attempts(rs, batch, i, listing) ==
    IF i > Len(batch) THEN 0
    ELSE UrlCount(rs[batch[i]], listing) + Attempts(rs, batch, i + 1, listing)

\* what the environment decides during one download call: the ticks one
\* retrieval takes, which retrieval attempt of the call fails (0: none), whether
\* the ftp session succeeds and what the server lists (asked only when the
\* batch holds a directory resource with an ftp:// URL)
Inputs(rs, batch) ==
    LET hasDir == \E i \in 1..Len(batch) :
                      rs[batch[i]].is_dir /\ StartsWith(rs[batch[i]].url_s.s, FTP)
    IN  { inp \in [dt : 0..1, failAt : 0..MaxFail,
                   ftpOk : IF hasDir THEN BOOLEAN ELSE {TRUE},
                   listing : IF hasDir THEN Listings ELSE {<<>>}] :
            /\ ~inp.ftpOk => inp.listing = <<>>
            /\ inp.failAt <= Attempts(rs, batch, 1, inp.listing)
            /\ Attempts(rs, batch, 1, inp.listing) = 0 => inp.dt = 0 }

Managers == {1, 2}

VARIABLES
    res,         \* the fields of each Resource object
    cache_dict,  \* per manager: whether it exists and its self.cache_dict
    cache_file,  \* cache_dir/cache.json: absent, unparseable or a JSON object
    clock,       \* datetime.now(), in ticks
    disk,        \* the files retrieved into the cache directory
    last,        \* the last operation: its calls, decisions and outcome
    calls,       \* the number of download calls made so far
    downloaded,  \* the names whose download has succeeded at least once
    pending,     \* the names of the multi-URL resources whose latest download
                 \* failed in a retrieval, each with the number of URLs that
                 \* download had retrieved
    fname_in,    \* a local filename handed to _retrieve (adapter selection alone)
    adapter      \* the processor _retrieve selected for fname_in

vars == <<res, cache_dict, cache_file, clock, disk, last, calls, downloaded, pending,
          fname_in, adapter>>

\* ------------------------------------------------------------ cache store
Absent == [state |-> "absent", data |-> <<>>]
Corrupt == [state |-> "corrupt", data |-> <<>>]
Json(d) == [state |-> "json", data |-> d]

NoManager == [alive |-> FALSE, d |-> <<>>]
Manager(d) == [alive |-> TRUE, d |-> d]

\* datetime.now() as a datetime object, and its str() form in the JSON file
DateTime(t) == [kind |-> "datetime", t |-> t]
DateStr(t) == [kind |-> "str", t |-> t]

\* json.dump(..., default=str): a datetime is written as str(datetime), any
\* JSON-native value as it is
DefaultStr(v) == IF v.kind = "datetime" THEN DateStr(v.t) ELSE v

JsonDump(d) ==
    [n \in DOMAIN d |-> [d[n] EXCEPT !.date_downloaded = DefaultStr(@)]]

\* json.load of what json.dump wrote: strings come back as strings
JsonLoad(data) == data

\* a _load_cache_dict that starts afresh when the file cannot be parsed
load_cache_dict_resets(file) ==
    IF file.state = "json"
    THEN [err |-> "none", file |-> file, d |-> JsonLoad(file.data)]
    ELSE [err |-> "none", file |-> Json(<<>>), d |-> <<>>]

\* _load_cache_dict: [err, file, d]; creates {} when the file is absent, raises
\* on an unparseable file
load_cache_dict(file) ==
    LET created == IF file.state = "absent" THEN Json(<<>>) ELSE file
    IN  IF created.state = "corrupt"
        THEN [err |-> "JSONDecodeError", file |-> created, d |-> <<>>]
        ELSE [err |-> "none", file |-> created, d |-> JsonLoad(created.data)]

\* _get_cache_record: self.cache_dict.get(resource.name, {})
get_cache_record(d, name) ==
    IF name \in DOMAIN d THEN [has |-> TRUE, rec |-> d[name]]
    ELSE [has |-> FALSE, rec |-> <<>>]

\* a record that carries the default lifetime instead of the descriptor's
CacheRecordDefaultLifetime(r, now) ==
    [url |-> r.url_s, date_downloaded |-> DateTime(now), lifetime |-> 0]

\* the record _update_cache_record builds
CacheRecord(r, now) ==
    [url |-> r.url_s, date_downloaded |-> DateTime(now), lifetime |-> r.lifetime]

\* self.cache_dict = {resource.name: cache_record}
PutRecordReplacesAll(d, name, rec) == [n \in {name} |-> rec]

\* self.cache_dict[resource.name] = cache_record
PutRecord(d, name, rec) ==
    [n \in (DOMAIN d) \cup {name} |-> IF n = name THEN rec ELSE d[n]]

\* datetime.fromisoformat: [err, t]; its argument must be a str
FromIsoFormat(v) ==
    IF v.kind = "str" THEN [err |-> "none", t |-> v.t]
    ELSE [err |-> "TypeError", t |-> 0]

\* timedelta(days=lifetime)
TimeDelta(days) == days * TicksPerDay

\* expired = dl + lt < datetime.now()
Expired(dl, lifetime, now) == dl + TimeDelta(lifetime) < now

\* ------------------------------------------------------------- retrieval
\* a _retrieve that tests the suffix .gz before the suffix .tar.gz
ProcessorGzFirst(fname) ==
    IF EndsWith(fname, ZIP) THEN "Unzip"
    ELSE IF EndsWith(fname, GZ) THEN "Decompress"
    ELSE IF EndsWith(fname, TARGZ) THEN "Untar"
    ELSE "none"

\* _retrieve: the processor chosen from the file name's suffix
Processor(fname) ==
    IF EndsWith(fname, ZIP) THEN "Unzip"
    ELSE IF EndsWith(fname, TARGZ) THEN "Untar"
    ELSE IF EndsWith(fname, GZ) THEN "Decompress"
    ELSE "none"

\* os.path.join(a, b)
PathJoin(a, b) == a \o SLASH \o b

\* what pooch.retrieve returns: the path of the file, the path of the
\* decompressed file, or the list of the members an archive was unpacked to
PoochResult(full, proc) ==
    CASE proc = "Unzip" -> Lst(<<Str(full \o UNZIP \o MEMBER)>>)
      [] proc = "Untar" -> Lst(<<Str(full \o UNTAR \o MEMBER)>>)
      [] proc = "Decompress" -> Str(full \o DECOMP)
      [] OTHER -> Str(full)

\* the local file name of a URL: url[url.rfind("/") + 1 :]
BaseName(url) == SliceFrom(url, RFind(url, "/") + 1)

\* a list branch that names the file as the single-URL branch does
ListFnameNoPrefix(name, url) == BaseName(url)

\* fname of the i-th URL of a list resource
ListFname(name, url) == name \o USCORE \o BaseName(url)

\* fname of a single-URL resource
SingleFname(url) == BaseName(url)

\* _get_files: [err, files, host, dir].  Without the ftp:// prefix `files` is
\* never bound and `return files` raises UnboundLocalError.
get_files(r, inp) ==
    IF StartsWith(r.url_s.s, FTP)
    THEN LET url0 == SliceFrom(r.url_s.s, 6)
             url == SliceTo(url0, Find(url0, "/"))
             dir == SliceFrom(r.url_s.s, 7 + Len(url))
         IN  IF url = FtpHost /\ dir = FtpDir /\ inp.ftpOk
             THEN [err |-> "none", files |-> inp.listing, host |-> url, dir |-> dir]
             ELSE [err |-> "FtpError", files |-> <<>>, host |-> url, dir |-> dir]
    ELSE [err |-> "UnboundLocalError", files |-> <<>>, host |-> <<>>, dir |-> <<>>]

\* resource.url_s = [resource.url_s + "/" + file for file in files]
ExpandUrls(base, files) ==
    Lst([i \in 1..Len(files) |-> Str(base \o SLASH \o files[i])])

\* ------------------------------------------------- one download call
\* The state a download call works on: the manager's cache_dict (d), the cache
\* file, the Resource objects, the clock, the files on disk, the retrieval
\* calls made so far (log), the ftp listings obtained so far (lists) and the
\* exception raised, if any (err).
CallState(d, file, rs, now, dk) ==
    [d |-> d, file |-> file, res |-> rs, now |-> now, disk |-> dk,
     log |-> <<>>, lists |-> <<>>, err |-> "none"]

Raise(st, e) == [st EXCEPT !.err = e]

\* a _retrieve that removes the files under `path` when the retrieval fails
retrieve_removes_partial(st, url, fname, path, inp) ==
    LET fails == inp.failAt = Len(st.log) + 1
        proc == Processor(fname)
        full == PathJoin(path, fname)
        call == [url |-> url, fname |-> fname, path |-> path, proc |-> proc,
                 ok |-> ~fails]
    IN  IF fails
        THEN [st |-> [st EXCEPT !.log = Append(@, call), !.err = "RetrieveError",
                                !.disk = { f \in @ : ~StartsWith(f, path) }],
              ret |-> None]
        ELSE [st |-> [st EXCEPT !.log = Append(@, call), !.now = @ + inp.dt,
                                !.disk = @ \cup {full}],
              ret |-> PoochResult(full, proc)]

\* one call of _retrieve: pooch.retrieve(url, fname, path, processor)
retrieve(st, url, fname, path, inp) ==
    LET fails == inp.failAt = Len(st.log) + 1
        proc == Processor(fname)
        full == PathJoin(path, fname)
        call == [url |-> url, fname |-> fname, path |-> path, proc |-> proc,
                 ok |-> ~fails]
    IN  IF fails
        THEN [st |-> [st EXCEPT !.log = Append(@, call), !.err = "RetrieveError"],
              ret |-> None]
        ELSE [st |-> [st EXCEPT !.log = Append(@, call), !.now = @ + inp.dt,
                                !.disk = @ \cup {full}],
              ret |-> PoochResult(full, proc)]

\* for url in resource.url_s: paths.append(self._retrieve(...))
RECURSIVE RetrieveList(_, _, _, _, _, _)
RECURSIVE RetrieveNext(_, _, _, _, _, _)
RetrieveList(st, name, urls, i, acc, inp) ==
    IF i > Len(urls) THEN [st |-> st, ret |-> Lst(acc)]
    ELSE RetrieveNext(retrieve(st, urls[i].s, ListFname(name, urls[i].s),
                               PathJoin(CacheDir, name), inp),
                      name, urls, i, acc, inp)

\* the loop goes on after a retrieval that did not raise
RetrieveNext(one, name, urls, i, acc, inp) ==
    IF one.st.err # "none" THEN [st |-> one.st, ret |-> None]
    ELSE RetrieveList(one.st, name, urls, i + 1, Append(acc, one.ret), inp)

\* an _update_cache_record that puts the record into what the cache file
\* holds, keeping the records other managers wrote there
update_cache_record_merges(st, rid) ==
    LET rec == CacheRecord(st.res[rid], st.now)
        d2 == PutRecord(st.d, st.res[rid].name, rec)
    IN  [st EXCEPT !.d = d2,
                   !.file = Json(PutRecord(JsonLoad(st.file.data), st.res[rid].name,
                                           JsonDump(d2)[st.res[rid].name]))]

\* _update_cache_record: the record is put into cache_dict and the whole
\* cache_dict is dumped to the cache file
update_cache_record(st, rid) ==
    LET d2 == PutRecord(st.d, st.res[rid].name, CacheRecord(st.res[rid], st.now))
    IN  [st EXCEPT !.d = d2, !.file = Json(JsonDump(d2))]

\* a freshness decision that takes a missing record for a fresh one
DecisionMissingIsFresh(d, r, now, cache) ==
    IF r.name \in DOMAIN d
    THEN IF d[r.name].date_downloaded.kind # "str" THEN "TypeError"
         ELSE IF Expired(d[r.name].date_downloaded.t, r.lifetime, now) \/ ~cache
              THEN "fetch" ELSE "hit"
    ELSE IF cache THEN "hit" ELSE "fetch"

\* a freshness decision that takes the lifetime from the stored record
DecisionStoredLifetime(d, r, now, cache) ==
    LET cr == get_cache_record(d, r.name)
        dl == FromIsoFormat(cr.rec.date_downloaded)
    IN  IF cr.has /\ dl.err # "none" THEN dl.err
        ELSE IF (IF cr.has THEN Expired(dl.t, cr.rec.lifetime, now) ELSE TRUE) \/ ~cache
             THEN "fetch"
             ELSE "hit"

\* the freshness decision of _download_or_cache: "TypeError", "fetch" or "hit"
Decision(d, r, now, cache) ==
    LET cr == get_cache_record(d, r.name)
        dl == FromIsoFormat(cr.rec.date_downloaded)
    IN  IF cr.has /\ dl.err # "none" THEN dl.err
        ELSE IF (IF cr.has THEN Expired(dl.t, r.lifetime, now) ELSE TRUE) \/ ~cache
             THEN "fetch"
             ELSE "hit"

\* the list branch and the single-URL branch of _download_or_cache: [st, ret]
Fetch(st, r, inp) ==
    IF r.url_s.k = "list"
    THEN RetrieveList(st, r.name, r.url_s.l, 1, <<>>, inp)
    ELSE retrieve(st, r.url_s.s, SingleFname(r.url_s.s),
                  PathJoin(CacheDir, r.name), inp)

\* an end of the download branch that updates the cache record whether or not
\* the paths could be got
AfterFetchRecordsAnyway(got, rid, dec) ==
    [st |-> update_cache_record(got.st, rid), ret |-> got.ret, dec |-> dec]

\* the end of the download branch: unless the paths could not be got, the
\* cache record is updated and the paths are returned
AfterFetch(got, rid, dec) ==
    IF got.st.err # "none" THEN [st |-> got.st, ret |-> None, dec |-> dec]
    ELSE [st |-> update_cache_record(got.st, rid), ret |-> got.ret, dec |-> dec]

\* a directory branch that clears is_dir and leaves url_s as it was
ExpandedKeepsUrl(st, rid, files) ==
    [st EXCEPT !.lists = Append(@, files), !.res[rid].is_dir = FALSE]

\* the directory branch rewrites the Resource object: url_s becomes the list
\* of the files' URLs and is_dir is cleared
Expanded(st, rid, files) ==
    [st EXCEPT !.lists = Append(@, files),
               !.res[rid] = [@ EXCEPT !.url_s = ExpandUrls(@.s, files),
                                      !.is_dir = FALSE]]

\* _download_or_cache: [st, ret, dec]
RECURSIVE download_or_cache(_, _, _, _)
RECURSIVE Dispatch(_, _, _, _, _)
RECURSIVE ExpandDir(_, _, _, _, _, _)
download_or_cache(st, rid, cache, inp) ==
    Dispatch(st, rid, cache, inp, Decision(st.d, st.res[rid], st.now, cache))

\* the branches of _download_or_cache once the decision is taken
Dispatch(st, rid, cache, inp, dec) ==
    IF dec = "TypeError" THEN [st |-> Raise(st, dec), ret |-> None, dec |-> dec]
    ELSE IF dec = "hit" THEN [st |-> st, ret |-> None, dec |-> dec]
    ELSE IF st.res[rid].is_dir
    THEN ExpandDir(st, rid, cache, inp, dec, get_files(st.res[rid], inp))
    ELSE AfterFetch(Fetch(st, st.res[rid], inp), rid, dec)

\* the directory branch: the files are listed, the Resource is rewritten and
\* _download_or_cache is called again on it
ExpandDir(st, rid, cache, inp, dec, gf) ==
    IF gf.err # "none" THEN [st |-> Raise(st, gf.err), ret |-> None, dec |-> dec]
    ELSE AfterFetch(download_or_cache(Expanded(st, rid, gf.files), rid, cache, inp),
                    rid, dec)

\* is_nested: some item of the list is a list
is_nested(paths) == \E i \in 1..Len(paths) : paths[i].k = "list"

\* iterating a value in the comprehension of download: a list yields its
\* items, a str its characters (each a str), None raises TypeError
Iterate(v) ==
    IF v.k = "list" THEN v.l
    ELSE [i \in 1..Len(v.s) |-> Str(<<v.s[i]>>)]

RECURSIVE Concat(_, _)
Concat(paths, i) ==
    IF i > Len(paths) THEN <<>> ELSE Iterate(paths[i]) \o Concat(paths, i + 1)

\* paths = [path for sublist in paths for path in sublist]: [err, paths]
Flatten(paths) ==
    IF \E i \in 1..Len(paths) : paths[i].k = "none"
    THEN [err |-> "TypeError", paths |-> <<>>]
    ELSE [err |-> "none", paths |-> Concat(paths, 1)]

\* what one pass of the loop of download did for one resource
Step(i, rid, before, out) ==
    LET r == before.res[rid]
        cr == get_cache_record(before.d, r.name)
    IN  [i |-> i, rid |-> rid, name |-> r.name, lifetime |-> r.lifetime,
         is_dir |-> r.is_dir, url_s |-> r.url_s,
         hadRec |-> cr.has,
         recDate |-> IF cr.has THEN cr.rec.date_downloaded ELSE DateStr(0),
         now |-> before.now, nowOut |-> out.st.now,
         dec |-> out.dec, err |-> out.st.err, ret |-> out.ret,
         dIn |-> before.d, dOut |-> out.st.d,
         fIn |-> before.file, fOut |-> out.st.file,
         dBefore |-> DOMAIN before.d, dAfter |-> DOMAIN out.st.d,
         fBefore |-> DOMAIN before.file.data, fAfter |-> DOMAIN out.st.file.data,
         logFrom |-> Len(before.log) + 1, logTo |-> Len(out.st.log),
         listed |-> SubSeq(out.st.lists, Len(before.lists) + 1, Len(out.st.lists))]

\* for resource in resources: paths.append(self._download_or_cache(resource))
RECURSIVE DownloadLoop(_, _, _, _, _, _)
RECURSIVE LoopNext(_, _, _, _, _, _, _)
DownloadLoop(st, batch, i, paths, steps, inp) ==
    IF i > Len(batch) THEN [st |-> st, paths |-> paths, steps |-> steps]
    ELSE LoopNext(st, download_or_cache(st, batch[i], TRUE, inp),
                  batch, i, paths, steps, inp)

\* a loop that goes on with the next resource after an exception
LoopNextContinues(st, out, batch, i, paths, steps, inp) ==
    IF out.st.err # "none"
    THEN DownloadLoop([out.st EXCEPT !.err = "none"], batch, i + 1, paths,
                      Append(steps, Step(i, batch[i], st, out)), inp)
    ELSE DownloadLoop(out.st, batch, i + 1, Append(paths, out.ret),
                      Append(steps, Step(i, batch[i], st, out)), inp)

\* an exception ends the loop, a returned value is appended to paths
LoopNext(st, out, batch, i, paths, steps, inp) ==
    IF out.st.err # "none"
    THEN [st |-> out.st, paths |-> paths,
          steps |-> Append(steps, Step(i, batch[i], st, out))]
    ELSE DownloadLoop(out.st, batch, i + 1, Append(paths, out.ret),
                      Append(steps, Step(i, batch[i], st, out)), inp)

\* the end of download: a nested list is flattened, the paths are returned
Returned(loop, flat) ==
    [st |-> loop.st, steps |-> loop.steps, err |-> flat.err,
     ret |-> IF flat.err = "none" THEN Lst(flat.paths) ELSE None]

FlattenIfNested(loop) ==
    IF loop.st.err = "none" /\ is_nested(loop.paths)
    THEN Flatten(loop.paths)
    ELSE [err |-> loop.st.err, paths |-> loop.paths]

FinishCall(loop) == Returned(loop, FlattenIfNested(loop))

\* Downloader.download(*resources): [st, steps, err, ret]
DownloadCall(st, batch, inp) ==
    FinishCall(DownloadLoop(st, batch, 1, <<>>, <<>>, inp))

\* ---------------------------------------------------------------- actions
NoOp == [op |-> "init", mgr |-> 0, batch |-> <<>>, steps |-> <<>>,
         log |-> <<>>, err |-> "none", ret |-> None, fileBefore |-> Absent,
         pendingBefore |-> {}]

\* the names whose download succeeded in the passes of a call
FetchedIn(steps) ==
    { steps[i].name : i \in { j \in 1..Len(steps) :
                                steps[j].dec = "fetch" /\ steps[j].err = "none" } }

\* the names of the multi-URL resources whose download failed in a retrieval
\* in the passes of a call, with the number of retrievals the pass had made
\* before the one that failed
FailedIn(steps) ==
    { [name |-> steps[i].name, got |-> steps[i].logTo - steps[i].logFrom] :
        i \in { j \in 1..Len(steps) :
                    steps[j].err = "RetrieveError" /\ steps[j].url_s.k = "list" } }

\* the names a call made a pass for
NamesIn(steps) == { steps[i].name : i \in 1..Len(steps) }

InitWith(rs) ==
    /\ res = rs
    /\ cache_dict = [m \in Managers |-> NoManager]
    /\ cache_file \in {Absent, Corrupt}
    /\ clock = 0
    /\ disk = {}
    /\ last = NoOp
    /\ calls = 0
    /\ downloaded = {}
    /\ pending = {}
    /\ fname_in = <<>>
    /\ adapter = "unset"

Init == InitWith(Resources)

InitDir == InitWith(DirResources)

InitTwo == InitWith(TwoResources)

InitLife == InitWith(LifeResources)

\* time passes between two calls
Tick ==
    /\ clock < MaxClock
    /\ clock' = clock + 1
    /\ UNCHANGED <<res, cache_dict, cache_file, disk, last, calls, downloaded, pending,
                   fname_in, adapter>>

\* Downloader(cache_dir): a new manager object m over the cache directory
Construct(m) ==
    LET ld == load_cache_dict(cache_file)
    IN  /\ cache_file' = ld.file
        /\ cache_dict' = IF ld.err = "none"
                         THEN [cache_dict EXCEPT ![m] = Manager(ld.d)]
                         ELSE cache_dict
        /\ last' = [NoOp EXCEPT !.op = "construct", !.mgr = m, !.err = ld.err,
                                !.fileBefore = cache_file]
        /\ UNCHANGED <<res, clock, disk, calls, downloaded, pending, fname_in, adapter>>

\* manager m's download(*batch)
Download(m, batch, inp) ==
    /\ cache_dict[m].alive
    /\ calls < MaxCalls
    /\ \E call \in { DownloadCall(
                        CallState(cache_dict[m].d, cache_file, res, clock, disk),
                        batch, inp) } :
        /\ calls' = calls + 1
        /\ call.st.now <= MaxClock
        /\ cache_dict' = [cache_dict EXCEPT ![m] = Manager(call.st.d)]
        /\ cache_file' = call.st.file
        /\ res' = call.st.res
        /\ clock' = call.st.now
        /\ disk' = call.st.disk
        /\ last' = [op |-> "download", mgr |-> m, batch |-> batch,
                    steps |-> call.steps, log |-> call.st.log, err |-> call.err,
                    ret |-> call.ret, fileBefore |-> cache_file,
                    pendingBefore |-> pending]
        /\ downloaded' = downloaded \cup FetchedIn(call.steps)
        /\ pending' = { p \in pending : p.name \notin NamesIn(call.steps) }
                            \cup FailedIn(call.steps)
        /\ UNCHANGED <<fname_in, adapter>>

Next ==
    \/ Tick
    \/ Construct(1)
    \/ \E batch \in Batches(res) : \E inp \in Inputs(res, batch) : Download(1, batch, inp)

Spec == Init /\ [][Next]_vars

SpecDir == InitDir /\ [][Next]_vars

\* one manager, descriptors that share a name
SpecLife == InitLife /\ [][Next]_vars

\* two manager objects over the same cache directory, their calls interleaved
NextTwo ==
    \/ Tick
    \/ \E m \in Managers : Construct(m)
    \/ \E m \in Managers : \E batch \in Batches(res) : \E inp \in Inputs(res, batch) :
          Download(m, batch, inp)

SpecTwo == InitTwo /\ [][NextTwo]_vars

\* ------------------------------------------- adapter selection on its own
\* local file names: up to MaxSegs pieces, each a stem or a suffix
Pieces == { <<"a">>, ZIP, <<".", "t", "a", "r">>, GZ }

RECURSIVE Join(_)
Join(q) == IF q = <<>> THEN <<>> ELSE Head(q) \o Join(Tail(q))

Fnames == { Join(q) : q \in SeqsUpTo(Pieces, MaxSegs) }

InitRetrieve ==
    /\ res = Resources
    /\ cache_dict = [m \in Managers |-> NoManager]
    /\ cache_file = Absent
    /\ clock = 0
    /\ disk = {}
    /\ last = NoOp
    /\ calls = 0
    /\ downloaded = {}
    /\ pending = {}
    /\ fname_in \in Fnames
    /\ adapter = "unset"

\* _retrieve(url, fname_in, path) selects its processor
SelectAdapter ==
    /\ adapter = "unset"
    /\ adapter' = Processor(fname_in)
    /\ UNCHANGED <<res, cache_dict, cache_file, clock, disk, last, calls, downloaded,
                   pending, fname_in>>

NextRetrieve == SelectAdapter

SpecRetrieve == InitRetrieve /\ [][NextRetrieve]_vars

\* ================================================================ claims
\* the passes of the loop of the last download call
Steps == { last.steps[i] : i \in 1..Len(last.steps) }

\* the pass found a record that this manager itself wrote (a download through
\* this manager object), not one loaded from the cache file
OwnRecord(s) == s.hadRec /\ s.recDate.kind = "datetime"

\* no earlier pass of the same call was for the same name: a record the pass
\* found was there before the call
FirstOfName(s) == \A q \in Steps : q.i < s.i => q.name # s.name

\* the pass made no retrieval call
NoRetrieval(s) == s.logTo < s.logFrom

\* the path(s) a successful download of the pass's resource produces
PathOfUrl(name, url, fname) ==
    PoochResult(PathJoin(PathJoin(CacheDir, name), fname), Processor(fname))

PathsOf(s) ==
    IF s.url_s.k = "list"
    THEN Lst([i \in 1..Len(s.url_s.l) |->
                PathOfUrl(s.name, s.url_s.l[i].s, ListFname(s.name, s.url_s.l[i].s))])
    ELSE PathOfUrl(s.name, s.url_s.s, SingleFname(s.url_s.s))

\* C1: a resource of lifetime L > 0 days that this manager downloaded at time
\* T is not fetched again by a download call before T + L (the call completes
\* and makes no retrieval call) and is fetched again by a call after T + L.
C1_FreshUntilExpiry ==
    \A s \in Steps :
        (OwnRecord(s) /\ FirstOfName(s) /\ s.lifetime > 0) =>
            /\ (s.now < s.recDate.t + s.lifetime * TicksPerDay) =>
                   (s.dec = "hit" /\ s.err = "none" /\ NoRetrieval(s))
            /\ (s.now > s.recDate.t + s.lifetime * TicksPerDay) =>
                   s.dec = "fetch"

\* C2: a download call that finds a fresh record (a cache hit) returns for
\* that resource the path(s) of its earlier download, never nothing.
C2_HitReturnsPaths ==
    \A s \in Steps :
        s.dec = "hit" => (s.ret # None /\ s.ret = PathsOf(s))

\* C3: a resource of lifetime 0 that this manager downloaded is permanent:
\* every later download call for its name completes as a cache hit, without
\* a fetch.
C3_LifetimeZeroPermanent ==
    \A s \in Steps :
        (OwnRecord(s) /\ FirstOfName(s) /\ s.lifetime = 0) =>
            (s.dec = "hit" /\ s.err = "none" /\ NoRetrieval(s))

\* C4: a download of a resource whose name has no cache record always takes
\* the fetch branch, and when it succeeds the cache store (cache_dict and
\* the cache file) holds one record more than before: the one of that name.
C4_FirstDownloadAddsOneRecord ==
    \A s \in Steps :
        ~s.hadRec =>
            /\ s.dec = "fetch"
            /\ s.err = "none" =>
                   /\ s.dAfter = s.dBefore \cup {s.name}
                   /\ Cardinality(s.dAfter) = Cardinality(s.dBefore) + 1
                   /\ s.fAfter = s.fBefore \cup {s.name}
                   /\ Cardinality(s.fAfter) = Cardinality(s.fBefore) + 1

\* C4 witness: a resource without a record was fetched successfully by a
\* manager that already held a record of another name
C4_Witness ==
    \E s \in Steps :
        ~s.hadRec /\ s.err = "none" /\ s.dec = "fetch" /\ s.dBefore # {}
            /\ s.name \in s.dAfter /\ ~NoRetrieval(s)

\* what a result contributes to the returned sequence when one level of
\* nesting is removed and a scalar passes through unchanged
Inlined(v) == IF v.k = "list" THEN v.l ELSE <<v>>

\* C5: a batch of a single-file resource and a list resource, both fetched,
\* returns the single path unchanged as one element and the list resource's
\* paths inlined in order.
C5_MixedBatchInlined ==
    (/\ last.op = "download"
     /\ Len(last.steps) = 2
     /\ \A s \in Steps : s.dec = "fetch" /\ s.err = "none"
     /\ \E s, q \in Steps :
            /\ s.url_s.k = "str" /\ s.ret.k = "str"
            /\ q.url_s.k = "list" /\ q.ret.k = "list")
    => (/\ last.err = "none"
        /\ last.ret = Lst(Inlined(last.steps[1].ret) \o Inlined(last.steps[2].ret)))

\* a descriptor of one URL whose download yields one path
SingleFile(r) == r.url_s.k = "str" /\ ~r.is_dir /\ PathsOf(r).k = "str"

\* C6: a batch of two single-file resources returns, unless a retrieval
\* fails, exactly two paths: the path of the first resource, then the path of
\* the second.
C6_TwoSinglesInOrder ==
    (/\ last.op = "download"
     /\ Len(last.batch) = 2
     /\ res[last.batch[1]].name # res[last.batch[2]].name
     /\ SingleFile(res[last.batch[1]]) /\ SingleFile(res[last.batch[2]])
     /\ \A i \in 1..Len(last.log) : last.log[i].ok)
    => (/\ last.err = "none"
        /\ last.ret = Lst(<<PathsOf(res[last.batch[1]]), PathsOf(res[last.batch[2]])>>))

\* C7: the download of a directory resource whose URL does not start with
\* ftp:// fails with the unsupported-scheme error, returns nothing and leaves
\* the cache store as it was.
C7_UnsupportedSchemeError ==
    \A s \in Steps :
        (s.is_dir /\ ~StartsWith(s.url_s.s, FTP) /\ s.dec = "fetch") =>
            /\ s.err = "UnsupportedSchemeError"
            /\ s.dAfter = s.dBefore
            /\ s.fAfter = s.fBefore

\* C8: a successful fetch of the directory resource ftp://host/dir lists the
\* directory once and makes one retrieval per listed name, in listing order,
\* from base_url/name to the file resourceName_name in cache_dir/resourceName,
\* and returns the results of these retrievals.
C8_DirectoryExpansion ==
    \A s \in Steps :
        (s.is_dir /\ StartsWith(s.url_s.s, FTP) /\ s.dec = "fetch" /\ s.err = "none") =>
            /\ Len(s.listed) = 1
            /\ s.logTo - s.logFrom + 1 = Len(s.listed[1])
            /\ s.ret.k = "list" /\ Len(s.ret.l) = Len(s.listed[1])
            /\ \A i \in 1..Len(s.listed[1]) :
                   /\ last.log[s.logFrom + i - 1].ok
                   /\ last.log[s.logFrom + i - 1].url
                          = s.url_s.s \o SLASH \o s.listed[1][i]
                   /\ last.log[s.logFrom + i - 1].fname
                          = s.name \o USCORE \o s.listed[1][i]
                   /\ last.log[s.logFrom + i - 1].path = CacheDir \o SLASH \o s.name
                   /\ s.ret.l[i] = PoochResult(
                          CacheDir \o SLASH \o s.name \o SLASH
                              \o s.name \o USCORE \o s.listed[1][i],
                          last.log[s.logFrom + i - 1].proc)

\* C8 witness: a directory of two files was fetched
C8_Witness ==
    \E s \in Steps :
        /\ s.is_dir /\ StartsWith(s.url_s.s, FTP) /\ s.dec = "fetch" /\ s.err = "none"
        /\ Len(s.listed) = 1 /\ Len(s.listed[1]) = 2
        /\ s.logTo - s.logFrom + 1 = 2

\* C9: the processor depends on the suffix of the local file name alone:
\* .zip gives Unzip, .tar.gz gives Untar, .gz without .tar gives Decompress,
\* anything else no processor.
C9_AdapterBySuffix ==
    adapter # "unset" =>
        /\ EndsWith(fname_in, ZIP) => adapter = "Unzip"
        /\ EndsWith(fname_in, TARGZ) => adapter = "Untar"
        /\ (EndsWith(fname_in, GZ) /\ ~EndsWith(fname_in, TARGZ)) => adapter = "Decompress"
        /\ (~EndsWith(fname_in, ZIP) /\ ~EndsWith(fname_in, GZ)) => adapter = "none"
        /\ adapter \in {"Unzip", "Untar", "Decompress", "none"}

\* C9 witness: a name ending in .tar.gz, which also ends in .gz, got Untar
C9_Witness ==
    adapter = "Untar" /\ EndsWith(fname_in, TARGZ) /\ EndsWith(fname_in, GZ)

\* C10: constructing a manager over an unparseable cache file fails; no
\* manager results and the cache file is left as it was.
C10_CorruptFileFailsFast ==
    (last.op = "construct" /\ last.fileBefore.state = "corrupt") =>
        /\ last.err # "none"
        /\ ~cache_dict[last.mgr].alive
        /\ cache_file = last.fileBefore

\* C10 witness: a construction over an unparseable cache file was tried
C10_Witness ==
    last.op = "construct" /\ last.fileBefore = Corrupt /\ last.err = "JSONDecodeError"

\* C11: for a single manager over its cache directory, the names that have a
\* cache record are exactly the names whose download has succeeded at least
\* once, in the manager's cache_dict and in the cache file; no pass of a
\* download removes a record; a manager constructed over an absent cache file
\* starts with no records.
C11_RecordIffDownloaded ==
    /\ cache_dict[1].alive => DOMAIN cache_dict[1].d = downloaded
    /\ cache_file.state = "json" => DOMAIN cache_file.data = downloaded
    /\ \A s \in Steps : s.dBefore \subseteq s.dAfter /\ s.fBefore \subseteq s.fAfter
    /\ (last.op = "construct" /\ last.fileBefore = Absent) =>
            cache_dict[1] = Manager(<<>>) /\ downloaded = {}

\* C11 witness: one name has been downloaded and has a record, the download
\* of another name was tried and failed and that name has no record
C11_Witness ==
    /\ last.op = "download"
    /\ downloaded # {}
    /\ DOMAIN cache_dict[1].d = downloaded
    /\ \E s \in Steps : s.err = "RetrieveError" /\ s.name \notin downloaded

\* the retrieval calls a pass made, in order
LogOf(s) == SubSeq(last.log, s.logFrom, s.logTo)

\* the pass retrieved the URLs of its list from the first one on, in order, up
\* to the last one or up to the one that failed
FromFirstUrl(s) ==
    /\ Len(LogOf(s)) <= Len(s.url_s.l)
    /\ \A j \in 1..Len(LogOf(s)) :
          /\ LogOf(s)[j].url = s.url_s.l[j].s
          /\ LogOf(s)[j].ok = (j < Len(LogOf(s)) \/ s.err = "none")
    /\ s.err = "none" => Len(LogOf(s)) = Len(s.url_s.l)
    /\ s.err # "none" => Len(LogOf(s)) >= 1

\* C12: when the retrieval of a URL of a multi-URL resource fails, the download
\* call fails, the files retrieved for the earlier URLs are on disk, the cache
\* record of the resource is as it was (in cache_dict and in the cache file),
\* and the next download of the resource fetches again, retrieving the URLs
\* from the first one on.
C12_PartialFailure ==
    /\ \A s \in Steps : (s.url_s.k = "list" /\ s.err = "RetrieveError") =>
          /\ last.err = "RetrieveError" /\ last.ret = None
          /\ \A j \in 1..Len(LogOf(s)) :
                LogOf(s)[j].ok => PathJoin(LogOf(s)[j].path, LogOf(s)[j].fname) \in disk
          /\ get_cache_record(s.dOut, s.name) = get_cache_record(s.dIn, s.name)
          /\ s.fOut = s.fIn
          /\ get_cache_record(cache_dict[last.mgr].d, s.name)
                = get_cache_record(s.dIn, s.name)
          /\ \E p \in pending : p.name = s.name /\ p.got = Len(LogOf(s)) - 1
    /\ \A s \in Steps :
          (s.url_s.k = "list" /\ FirstOfName(s)
             /\ \E p \in last.pendingBefore : p.name = s.name) =>
                s.dec = "fetch" /\ FromFirstUrl(s)

\* C12 witness: the download of a two-URL resource had failed at its second
\* URL, and the next download of it retrieved both URLs
C12_Witness ==
    \E s \in Steps :
        /\ s.url_s.k = "list" /\ Len(s.url_s.l) = 2
        /\ [name |-> s.name, got |-> 1] \in last.pendingBefore
        /\ s.dec = "fetch" /\ s.err = "none" /\ Len(LogOf(s)) = 2
        /\ s.name \in DOMAIN cache_dict[last.mgr].d

\* C13: a batch is processed one resource after the other in input order and
\* stops at the first resource that fails: the passes before it completed,
\* the records of those that were fetched are in cache_dict and in the cache
\* file, and after the failing pass nothing is retrieved and no record is
\* touched, so cache_dict and the file are as the failing pass left them.
C13_FailFastInOrder ==
    last.op = "download" =>
        /\ Len(last.steps) <= Len(last.batch)
        /\ \A i \in 1..Len(last.steps) :
              /\ last.steps[i].i = i /\ last.steps[i].rid = last.batch[i]
              /\ last.steps[i].logFrom =
                    (IF i = 1 THEN 1 ELSE last.steps[i - 1].logTo + 1)
              /\ i > 1 => /\ last.steps[i].dIn = last.steps[i - 1].dOut
                          /\ last.steps[i].fIn = last.steps[i - 1].fOut
        /\ Len(last.steps) < Len(last.batch) =>
              last.steps # <<>> /\ last.steps[Len(last.steps)].err # "none"
        /\ \A k \in 1..Len(last.steps) : last.steps[k].err # "none" =>
              /\ k = Len(last.steps)
              /\ last.err = last.steps[k].err
              /\ Len(last.log) = last.steps[k].logTo
              /\ cache_dict[last.mgr].d = last.steps[k].dOut
              /\ cache_file = last.steps[k].fOut
              /\ \A i \in 1..(k - 1) :
                    /\ last.steps[i].err = "none"
                    /\ last.steps[i].dec = "fetch" =>
                          /\ last.steps[i].name \in DOMAIN cache_dict[last.mgr].d
                          /\ cache_dict[last.mgr].d[last.steps[i].name]
                                = last.steps[i].dOut[last.steps[i].name]
                          /\ cache_file.state = "json"
                          /\ last.steps[i].name \in DOMAIN cache_file.data
                          /\ cache_file.data[last.steps[i].name]
                                = JsonDump(last.steps[i].dOut)[last.steps[i].name]

\* C13 witness: in a batch of two the first resource was fetched and has its
\* record in the cache file, the second failed and has none
C13_Witness ==
    /\ last.op = "download" /\ Len(last.batch) = 2 /\ Len(last.steps) = 2
    /\ last.steps[1].dec = "fetch" /\ last.steps[1].err = "none"
    /\ last.steps[2].err = "RetrieveError"
    /\ last.steps[1].name \in DOMAIN cache_file.data
    /\ last.steps[2].name \notin DOMAIN cache_file.data

\* C14: with two managers over the same cache directory, every record update
\* writes the whole store from the writing manager's own cache_dict: after a
\* pass that fetched, the cache file holds exactly that manager's records, so
\* a record another manager had written to the file, and that this manager
\* never loaded, is gone from the file (the last writer wins).
C14_LastWriterWins ==
    /\ \A s \in Steps : (s.dec = "fetch" /\ s.err = "none") =>
          /\ s.fOut = Json(JsonDump(s.dOut))
          /\ DOMAIN s.fOut.data = s.dBefore \cup {s.name}
    /\ (last.op = "download" /\ FetchedIn(last.steps) # {}) =>
          cache_file = Json(JsonDump(cache_dict[last.mgr].d))

\* C14 witness, the lost update: a name was downloaded by one manager and its
\* record was in the cache file; a download of another name by the other
\* manager succeeded, and the file has no record of the first name any more
C14_Witness ==
    /\ last.op = "download" /\ last.err = "none"
    /\ cache_file.state = "json"
    /\ \E n \in downloaded :
          /\ n \in DOMAIN last.fileBefore.data
          /\ n \notin DOMAIN cache_file.data
          /\ n \notin NamesIn(last.steps)
          /\ \E m \in Managers \ {last.mgr} : n \in DOMAIN cache_dict[m].d

\* the single manager exists and its last operation, a construction or a
\* download call, completed
Settled ==
    /\ cache_dict[1].alive
    /\ last.op \in {"construct", "download"} /\ last.mgr = 1 /\ last.err = "none"

\* the cache file holds what dumping the manager's cache_dict gives: the same
\* names, url and lifetime, the timestamp in its str() form
FileMirrorsMemory == cache_file = Json(JsonDump(cache_dict[1].d))

\* C15: for a single manager, after construction and after every completed
\* download call the in-memory mapping equals the mapping loaded from the
\* cache file (the timestamp in its string form), so that a manager
\* constructed now over the same directory takes the same freshness decision
\* as this manager for every descriptor.
C15_MemoryEqualsFile ==
    Settled =>
        /\ FileMirrorsMemory
        /\ \A rid \in DOMAIN res :
              Decision(cache_dict[1].d, res[rid], clock, TRUE)
                = Decision(load_cache_dict(cache_file).d, res[rid], clock, TRUE)

\* C16: after a successful download of a directory resource the descriptor
\* has is_dir false and url_s the list of the URLs of the listed files; the
\* call listed the remote directory exactly once for it; a pass for a
\* descriptor whose is_dir is (no longer) set lists nothing.
C16_DirectoryRewritten ==
    \A s \in Steps :
        /\ (s.is_dir /\ s.dec = "fetch" /\ s.err = "none") =>
              /\ Len(s.listed) = 1
              /\ ~res[s.rid].is_dir
              /\ res[s.rid].url_s = ExpandUrls(s.url_s.s, s.listed[1])
        /\ Len(s.listed) <= 1
        /\ ~s.is_dir => s.listed = <<>>

\* C16 witness: a descriptor constructed as a directory was downloaded again
\* after its first download had rewritten it: the pass fetched the URLs of the
\* list and listed nothing
C16_Witness ==
    \E s \in Steps :
        /\ DirResources[s.rid].is_dir /\ ~s.is_dir
        /\ s.url_s.k = "list" /\ s.url_s.l # <<>>
        /\ s.hadRec /\ s.dec = "fetch" /\ s.err = "none"
        /\ ~NoRetrieval(s) /\ s.listed = <<>>

\* the descriptor's url_s when the pass updates the record: a directory pass
\* has rewritten it into the list of the listed files' URLs
UrlAtUpdate(s) ==
    IF s.is_dir THEN ExpandUrls(s.url_s.s, s.listed[1]) ELSE s.url_s

\* C17: after every successful fetch (single URL, list or directory) the
\* record under the resource's name holds the descriptor's url_s of that
\* moment, the clock value at the update and the descriptor's lifetime, in
\* cache_dict and (the date as a string) in the cache file; it replaces the
\* record the name had, the other names keep one record each.
C17_RecordAfterFetch ==
    \A s \in Steps : (s.dec = "fetch" /\ s.err = "none") =>
        /\ DOMAIN s.dOut = DOMAIN s.dIn \cup {s.name}
        /\ s.dOut[s.name] = [url |-> UrlAtUpdate(s),
                             date_downloaded |-> DateTime(s.nowOut),
                             lifetime |-> s.lifetime]
        /\ s.fOut.state = "json"
        /\ DOMAIN s.fOut.data = DOMAIN s.dOut
        /\ s.fOut.data[s.name] = [url |-> UrlAtUpdate(s),
                                  date_downloaded |-> DateStr(s.nowOut),
                                  lifetime |-> s.lifetime]

\* C17 witness: a fetch of a list of URLs replaced the record the name had
\* from an earlier download by a record with a later date
C17_Witness ==
    \E s \in Steps :
        /\ s.dec = "fetch" /\ s.err = "none"
        /\ s.url_s.k = "list" /\ s.url_s.l # <<>> /\ ~NoRetrieval(s)
        /\ s.hadRec /\ s.recDate.t < s.nowOut
        /\ cache_dict[last.mgr].d[s.name].date_downloaded = DateTime(s.nowOut)

\* the pass left the records of the names other than its own as they were, in
\* the mapping it started from (din) and ended with (dout)
OthersKept(s, din, dout) ==
    \A n \in (DOMAIN din \cup DOMAIN dout) \ {s.name} :
        get_cache_record(dout, n) = get_cache_record(din, n)

\* C18 as stated: a download for one name, whether it fetches, hits or fails,
\* leaves the records of every other name unchanged, in the manager's
\* cache_dict and in the cache file.
C18_OtherRecordsUntouched ==
    \A s \in Steps :
        /\ OthersKept(s, s.dIn, s.dOut)
        /\ OthersKept(s, s.fIn.data, s.fOut.data)

\* C18 amended: a download for one name leaves the records of every other name
\* unchanged in the manager's cache_dict; a pass that does not complete a
\* fetch leaves the cache file as it is; a completed fetch leaves the other
\* names' records in the file unchanged when the file held this manager's
\* records at the start of the pass (no other manager wrote it meanwhile).
C18_OtherRecordsUntouchedOwnFile ==
    \A s \in Steps :
        /\ OthersKept(s, s.dIn, s.dOut)
        /\ (s.dec # "fetch" \/ s.err # "none") => s.fOut = s.fIn
        /\ s.fIn = Json(JsonDump(s.dIn)) => OthersKept(s, s.fIn.data, s.fOut.data)

\* C18 witness: with two managers alive, a fetch by a manager that held the
\* record of another name, the file holding that manager's records, kept the
\* other name's record in cache_dict and in the file
C18_Witness ==
    /\ \A m \in Managers : cache_dict[m].alive
    /\ \E s \in Steps :
          /\ s.dec = "fetch" /\ s.err = "none"
          /\ s.fIn = Json(JsonDump(s.dIn))
          /\ \E n \in DOMAIN s.dIn \ {s.name} :
                /\ cache_dict[last.mgr].d[n] = s.dIn[n]
                /\ n \in DOMAIN cache_file.data
                /\ cache_file.data[n] = s.fIn.data[n]

\* C19: the decision of a pass that finds a record is a function of the stored
\* date_downloaded, the lifetime of the descriptor passed and the clock: the
\* url and the lifetime stored in the record play no part.
C19_DecisionInputs ==
    \A s \in Steps : s.hadRec =>
        s.dec = (IF s.recDate.kind # "str" THEN "TypeError"
                 ELSE IF s.recDate.t + s.lifetime * TicksPerDay < s.now THEN "fetch"
                 ELSE "hit")

\* C19 witness: a pass took a record for fresh under its descriptor's lifetime
\* although the record stores another lifetime and another url, and the
\* descriptor of the same name with that other lifetime gets the decision
\* fetch against the same record at the same instant
C19_Witness ==
    \E s \in Steps :
        /\ s.hadRec /\ s.dec = "hit"
        /\ s.dIn[s.name].lifetime # s.lifetime /\ s.dIn[s.name].url # s.url_s
        /\ \E rid \in DOMAIN res :
              /\ res[rid].name = s.name
              /\ res[rid].lifetime = s.dIn[s.name].lifetime
              /\ Decision(s.dIn, res[rid], s.now, TRUE) = "fetch"

====
